---- MODULE Spec2Model ----
(***************************************************************************)
(* Model of src/server.py: the search_web tool (FireCrawl first, Tavily    *)
(* fallback, GPT-4o-mini synthesis, citation assembly).                    *)
(*                                                                         *)
(* One invocation of search_web is modelled as a sequential process whose  *)
(* position is pc.  Every call to an external collaborator (client         *)
(* constructors, provider A, provider B, the completion endpoint) is a     *)
(* point where the environment chooses the outcome: a response drawn from  *)
(* a bounded set, or an exception.                                         *)
(***************************************************************************)
EXTENDS Integers, Sequences, FiniteSets, TLC

(***************************************************************************)
(* Bounds of the model.                                                    *)
(***************************************************************************)
MaxHits == 2          \* longest provider-A hit list
MaxTavilyHits == 2    \* longest provider-B hit list
MaxMaxResults == 2    \* largest max_results argument

(***************************************************************************)
(* Program constants.                                                      *)
(***************************************************************************)
MinContentLen == 10   \* len(content) > 10
TruncateAt == 1500    \* len(str(content)) > 1500, str(content)[:1500]

(***************************************************************************)
(* Python values.  A value is a tagged record: None, a str, an int, or     *)
(* "absent" for a key that a dict does not hold.                           *)
(***************************************************************************)
PyNone == [t |-> "none", s |-> ""]
PyAbsent == [t |-> "absent", s |-> ""]
PyStr(s) == [t |-> "str", s |-> s]
PyInt(s) == [t |-> "int", s |-> s]

\* truth value of a Python object (bool(x))
Truthy(v) ==
  CASE v.t = "none" -> FALSE
    [] v.t = "str" -> v.s # ""
    [] v.t = "int" -> v.s # "0"
    [] OTHER -> FALSE

\* a or b
PyOr(a, b) == IF Truthy(a) THEN a ELSE b

\* str(x), also what an f-string does to x
str(v) ==
  CASE v.t = "str" -> v.s
    [] v.t = "none" -> "None"
    [] OTHER -> v.s

\* d.get(key, default) on the value stored under the key
DictGet(v, default) == IF v.t = "absent" THEN default ELSE v

Min(a, b) == IF a < b THEN a ELSE b
Max(a, b) == IF a > b THEN a ELSE b

\* the slice forgotten
SliceToEnd(seq, n) == seq

\* seq[:n]
SliceTo(seq, n) ==
  IF n >= 0 THEN SubSeq(seq, 1, Min(n, Len(seq)))
  ELSE SubSeq(seq, 1, Max(0, Len(seq) + n))

\* s repeated n times
RECURSIVE Rep(_, _)
Rep(s, n) ==
  IF n = 0 THEN ""
  ELSE IF n % 2 = 1 THEN s \o Rep(s, n - 1)
  ELSE LET h == Rep(s, n \div 2) IN h \o h

\* s.strip() for the whitespace characters the model uses
RECURSIVE LStrip(_)
LStrip(s) ==
  IF s = "" THEN s
  ELSE IF Head(s) \in {" ", "\n"} THEN LStrip(Tail(s))
  ELSE s

RECURSIVE RStrip(_)
RStrip(s) ==
  IF s = "" THEN s
  ELSE IF SubSeq(s, Len(s), Len(s)) \in {" ", "\n"} THEN RStrip(SubSeq(s, 1, Len(s) - 1))
  ELSE s

strip(s) == RStrip(LStrip(s))

(***************************************************************************)
(* Inputs of the model.                                                    *)
(***************************************************************************)
Queries == {"capital of France", "q"}
MaxResultsArgs == 0..MaxMaxResults

\* content strings on both sides of the two length thresholds
Short10 == Rep("a", MinContentLen)
Long11 == Rep("b", MinContentLen + 1)
AtLimit == Rep("cd", TruncateAt \div 2)
OverLimit == AtLimit \o "e"

\* a hit object of provider A: attributes that are None when missing; the
\* text is in markdown, in content, or in neither
FirecrawlBodies ==
  {[markdown |-> PyNone, content |-> PyNone],
   [markdown |-> PyNone, content |-> PyStr(Short10)],
   [markdown |-> PyStr(Long11), content |-> PyNone],
   [markdown |-> PyInt("12345"), content |-> PyNone]}

FirecrawlHits ==
  {[title |-> t, url |-> u, markdown |-> b.markdown, content |-> b.content] :
     t \in {PyNone, PyStr("Paris")}, u \in {PyNone, PyStr("https://x")},
     b \in FirecrawlBodies}

\* a hit of provider B: a dict holding all of the keys or none of them, or
\* an object that is no dict at all (dict = FALSE)
TavilyHits ==
  {[dict |-> TRUE, title |-> PyStr("Lyon"), url |-> PyStr("https://y"), content |-> PyStr(c)] :
     c \in {AtLimit, OverLimit}}
  \cup {[dict |-> TRUE, title |-> PyAbsent, url |-> PyAbsent, content |-> PyAbsent],
        [dict |-> FALSE, title |-> PyAbsent, url |-> PyAbsent, content |-> PyAbsent]}

SeqsUpTo(S, n) == UNION {[1..k -> S] : k \in 0..n}

\* what firecrawl_app.search(query) can give back
FirecrawlResponses ==
  {[kind |-> "no_data", data |-> <<>>]}
  \cup {[kind |-> "data", data |-> d] : d \in SeqsUpTo(FirecrawlHits, MaxHits) \ {<<>>}}

\* what tavily_client.search(...) can give back
TavilyResponses ==
  {[kind |-> "no_results", data |-> <<>>]}
  \cup {[kind |-> "results", data |-> d] : d \in SeqsUpTo(TavilyHits, MaxTavilyHits)}

\* the text of response.choices[0].message.content; PyNone when the model
\* sends no text
Completions == {PyStr(" Paris is the capital.\n"), PyStr("Paris."), PyNone}

NoResponse == [kind |-> "unset", data |-> <<>>]

(***************************************************************************)
(* search_web, lines 64-75: the normalisation of provider A's hits.        *)
(***************************************************************************)
NoTitle == PyStr("No title")
NoURL == PyStr("No URL")
NoContent == PyStr("No content")

\* lines 65-67
FirecrawlRecord(hit) ==
  [title |-> PyOr(hit.title, NoTitle),
   url |-> PyOr(hit.url, NoURL),
   content |-> PyOr(hit.markdown, PyOr(hit.content, NoContent))]

\* the length comparison off by one: >= for >
UsefulHitFromMin(rec) ==
  IF rec.title # NoTitle THEN "keep"
  ELSE IF rec.url # NoURL THEN "keep"
  ELSE IF ~Truthy(rec.content) THEN "drop"
  ELSE IF rec.content = NoContent THEN "drop"
  ELSE IF rec.content.t # "str" THEN "raise"
  ELSE IF Len(rec.content.s) >= MinContentLen THEN "keep"
  ELSE "drop"

\* line 70, evaluated left to right with short circuit: "keep", "drop", or
\* "raise" when len() is applied to a value that has no length
UsefulHit(rec) ==
  IF rec.title # NoTitle THEN "keep"
  ELSE IF rec.url # NoURL THEN "keep"
  ELSE IF ~Truthy(rec.content) THEN "drop"
  ELSE IF rec.content = NoContent THEN "drop"
  ELSE IF rec.content.t # "str" THEN "raise"
  ELSE IF Len(rec.content.s) > MinContentLen THEN "keep"
  ELSE "drop"

\* lines 64-75: the loop appends to results as it goes, so an exception at
\* hit i leaves the records of the hits before i in results
RECURSIVE FirecrawlLoop(_, _, _)
FirecrawlLoop(data, i, acc) ==
  IF i > Len(data) THEN [results |-> acc, raised |-> FALSE]
  ELSE LET rec == FirecrawlRecord(data[i])
           u == UsefulHit(rec)
       IN IF u = "raise" THEN [results |-> acc, raised |-> TRUE]
          ELSE FirecrawlLoop(data, i + 1, IF u = "keep" THEN Append(acc, rec) ELSE acc)

(***************************************************************************)
(* search_with_tavily, lines 29-37.                                        *)
(***************************************************************************)
TavilyRecord(hit) ==
  [title |-> DictGet(hit.title, NoTitle),
   url |-> DictGet(hit.url, NoURL),
   content |-> DictGet(hit.content, NoContent)]

\* the list is local to the function: an exception at any hit discards it
TavilyLoop(data) ==
  IF \E i \in 1..Len(data) : ~data[i].dict
  THEN [results |-> <<>>, raised |-> TRUE]
  ELSE [results |-> [i \in 1..Len(data) |-> TavilyRecord(data[i])], raised |-> FALSE]

\* lines 61-63: the response has a truthy data attribute that is a
\* non-empty list
HasData(resp) == resp.kind = "data" /\ Len(resp.data) > 0

(***************************************************************************)
(* search_web, lines 92-108: the message returned when there are no        *)
(* results.  It is an f-string: the query is interpolated into it.         *)
(***************************************************************************)
DiagnosticHead == "I was unable to find search results for \""

DiagnosticTail ==
  "\" using available search providers (FireCrawl, Tavily). This could be due to:\n"
  \o "1. API limitations or issues\n"
  \o "2. The query being too specific or recent\n"
  \o "3. Network connectivity issues\n"
  \o "\n"
  \o "Please try:\n"
  \o "- Rephrasing your query\n"
  \o "- Checking your internet connection\n"
  \o "- Verifying your API keys are configured correctly\n"
  \o "- Trying again in a few minutes\n"
  \o "\n"
  \o "For ManCity match information specifically, I recommend checking:\n"
  \o "- Official Manchester City FC website\n"
  \o "- BBC Sport\n"
  \o "- ESPN\n"
  \o "- Sky Sports"

\* the message without the query in it
DiagnosticMessageWithoutQuery(q) == DiagnosticHead \o DiagnosticTail

DiagnosticMessage(q) == DiagnosticHead \o q \o DiagnosticTail

(***************************************************************************)
(* search_web, lines 110-131: the context and the citation block.  A block *)
(* is its header's label and its numbered entries.                         *)
(***************************************************************************)
\* enumerate(seq, start)
Enumerate(seq, start) ==
  [k \in 1..Len(seq) |-> [i |-> start + k - 1, result |-> seq[k]]]

\* the comparison off by one: >= for >
TruncateFromLimit(content) ==
  IF Len(str(content)) >= TruncateAt
  THEN SubSeq(str(content), 1, TruncateAt) \o "..."
  ELSE str(content)

\* lines 119-120
Truncate(content) ==
  IF Len(str(content)) > TruncateAt
  THEN SubSeq(str(content), 1, TruncateAt) \o "..."
  ELSE str(content)

\* lines 113-124
ContextEntries(res, n) ==
  LET es == Enumerate(SliceTo(res, n), 1)
  IN [k \in 1..Len(es) |->
        [i |-> es[k].i,
         url |-> str(DictGet(es[k].result.url, NoURL)),
         title |-> str(DictGet(es[k].result.title, NoTitle)),
         content |-> Truncate(DictGet(es[k].result.content, NoContent))]]

\* lines 128-131
SourceEntries(res, n) ==
  LET es == Enumerate(SliceTo(res, n), 1)
  IN [k \in 1..Len(es) |->
        [i |-> es[k].i,
         title |-> str(DictGet(es[k].result.title, NoTitle)),
         url |-> str(DictGet(es[k].result.url, NoURL))]]

NoBlock == [label |-> "", entries |-> <<>>]
NoPrompt == [query |-> "", context |-> NoBlock, label |-> ""]
NoReturn == [kind |-> "none", text |-> "", sources |-> NoBlock]

(***************************************************************************)
(* The state of one invocation of search_web.                              *)
(***************************************************************************)
VARIABLES
  pc,                  \* position in search_web
  query,               \* argument
  max_results,         \* argument
  results,             \* line 53
  search_method_used,  \* line 54
  search_result,       \* line 59, provider A's response
  context,             \* lines 111-124
  sources,             \* lines 127-131
  prompt,              \* lines 134-146
  response,            \* line 149, the completion's message content
  retval,              \* the value returned by search_web
  raised,              \* where the exception leaving search_web was raised
  caught,              \* the adapters whose exception was caught and logged
  calls,               \* the calls made to the three endpoints, in order
  fallbacks            \* the invocations of search_with_tavily, in order

vars == <<pc, query, max_results, results, search_method_used, search_result,
          context, sources, prompt, response, retval, raised, caught, calls,
          fallbacks>>

Init ==
  /\ pc = "idle"
  /\ query = ""
  /\ max_results = 0
  /\ results = <<>>
  /\ search_method_used = ""
  /\ search_result = NoResponse
  /\ context = NoBlock
  /\ sources = NoBlock
  /\ prompt = NoPrompt
  /\ response = PyNone
  /\ retval = NoReturn
  /\ raised = ""
  /\ caught = {}
  /\ calls = <<>>
  /\ fallbacks = <<>>

\* a call to an endpoint, with the arguments the code passes and the number
\* of records held when it is made
Call(ep, mr) == [ep |-> ep, query |-> query, max_results |-> mr, n |-> Len(results)]

\* lines 46-49: the host invokes the tool
Invoke(q, mr) ==
  /\ pc = "idle"
  /\ query' = q
  /\ max_results' = mr
  /\ pc' = "openai_client"
  /\ UNCHANGED <<results, search_method_used, search_result, context, sources,
                 prompt, response, retval, raised, caught, calls, fallbacks>>

\* lines 51-54: the completion client is constructed before anything else,
\* outside every try; its constructor raises when it finds no API key
ConstructOpenAI ==
  /\ pc = "openai_client"
  /\ \/ /\ pc' = "firecrawl"
        /\ results' = <<>>
        /\ search_method_used' = "Unknown"
        /\ UNCHANGED raised
     \/ /\ pc' = "raised"
        /\ raised' = "openai_client"
        /\ UNCHANGED <<results, search_method_used>>
  /\ UNCHANGED <<query, max_results, search_result, context, sources, prompt,
                 response, retval, caught, calls, fallbacks>>

\* lines 56-81: the primary adapter, one try block
Firecrawl ==
  /\ pc = "firecrawl"
  /\ pc' = "tavily"
  /\ \/ \* line 58: FirecrawlApp(...) raises
        /\ caught' = caught \cup {"FireCrawl"}
        /\ UNCHANGED <<results, search_method_used, search_result, calls>>
     \/ \* line 59: the search call raises
        /\ calls' = Append(calls, Call("firecrawl", <<>>))
        /\ caught' = caught \cup {"FireCrawl"}
        /\ UNCHANGED <<results, search_method_used, search_result>>
     \/ \* lines 59-79: the search call returns
        \E resp \in FirecrawlResponses :
          LET out == IF HasData(resp) THEN FirecrawlLoop(resp.data, 1, results)
                     ELSE [results |-> results, raised |-> FALSE]
          IN /\ calls' = Append(calls, Call("firecrawl", <<>>))
             /\ search_result' = resp
             /\ results' = out.results
             /\ caught' = IF out.raised THEN caught \cup {"FireCrawl"} ELSE caught
             /\ search_method_used' =
                  IF ~out.raised /\ HasData(resp) /\ out.results # <<>>
                  THEN "FireCrawl" ELSE search_method_used
  /\ UNCHANGED <<query, max_results, context, sources, prompt, response, retval,
                 raised, fallbacks>>

\* the test forgotten: the branch is always taken
NotResultsUntested(res) == TRUE

\* line 84 and line 92: "if not results"
NotResults(res) == res = <<>>

\* lines 83-89, with search_with_tavily (lines 18-40) inlined
Tavily ==
  /\ pc = "tavily"
  /\ pc' = "check"
  /\ \/ \* line 84: there are records, the fallback is skipped
        /\ ~NotResults(results)
        /\ UNCHANGED <<results, search_method_used, caught, calls, fallbacks>>
     \/ \* line 86: search_with_tavily(query, max_results)
        /\ NotResults(results)
        /\ fallbacks' = Append(fallbacks, [query |-> query, max_results |-> max_results])
        /\ \/ \* line 21: TavilyClient(...) raises; line 40 returns []
              /\ results' = <<>>
              /\ caught' = caught \cup {"Tavily"}
              /\ UNCHANGED <<search_method_used, calls>>
           \/ \* line 22: the search call raises; line 40 returns []
              /\ calls' = Append(calls, Call("tavily", <<max_results>>))
              /\ results' = <<>>
              /\ caught' = caught \cup {"Tavily"}
              /\ UNCHANGED search_method_used
           \/ \* lines 22-37: the search call returns
              \E resp \in TavilyResponses :
                LET out == TavilyLoop(resp.data)
                IN /\ calls' = Append(calls, Call("tavily", <<max_results>>))
                   /\ results' = out.results
                   /\ caught' = IF out.raised THEN caught \cup {"Tavily"} ELSE caught
                   /\ search_method_used' =
                        IF out.results # <<>> THEN "Tavily" ELSE search_method_used
  /\ UNCHANGED <<query, max_results, search_result, context, sources, prompt,
                 response, retval, raised>>

\* lines 91-108: no results, the message is returned
ReturnDiagnostic ==
  /\ pc = "check"
  /\ NotResults(results)
  /\ retval' = [kind |-> "diagnostic", text |-> DiagnosticMessage(query), sources |-> NoBlock]
  /\ pc' = "returned"
  /\ UNCHANGED <<query, max_results, results, search_method_used, search_result,
                 context, sources, prompt, response, raised, caught, calls, fallbacks>>

\* lines 110-146: context, citation block and prompt
Format ==
  /\ pc = "check"
  /\ ~NotResults(results)
  /\ context' = [label |-> search_method_used,
                 entries |-> ContextEntries(results, max_results)]
  /\ sources' = [label |-> search_method_used,
                 entries |-> SourceEntries(results, max_results)]
  /\ prompt' = [query |-> query, context |-> context', label |-> search_method_used]
  /\ pc' = "completion"
  /\ UNCHANGED <<query, max_results, results, search_method_used, search_result,
                 response, retval, raised, caught, calls, fallbacks>>

\* the completion call wrapped in a try block like the adapters
CompleteInTry ==
  /\ pc = "completion"
  /\ calls' = Append(calls, Call("openai", <<>>))
  /\ \/ /\ pc' = "returned"
        /\ caught' = caught \cup {"OpenAI"}
        /\ retval' = [kind |-> "diagnostic", text |-> DiagnosticMessage(query), sources |-> NoBlock]
        /\ UNCHANGED response
     \/ /\ \E c \in Completions : response' = c
        /\ pc' = "assemble"
        /\ UNCHANGED <<caught, retval>>
  /\ UNCHANGED <<query, max_results, results, search_method_used, search_result,
                 context, sources, prompt, raised, fallbacks>>

\* lines 148-157: the completion call, in no try block
Complete ==
  /\ pc = "completion"
  /\ calls' = Append(calls, Call("openai", <<>>))
  /\ \/ \* the call raises: the exception leaves search_web
        /\ pc' = "raised"
        /\ raised' = "completion"
        /\ UNCHANGED response
     \/ \* the call returns
        /\ \E c \in Completions : response' = c
        /\ pc' = "assemble"
        /\ UNCHANGED raised
  /\ UNCHANGED <<query, max_results, results, search_method_used, search_result,
                 context, sources, prompt, retval, caught, fallbacks>>

\* lines 159-164: the answer and the citation block are returned; a message
\* without content has no strip() and the AttributeError leaves search_web
Assemble ==
  /\ pc = "assemble"
  /\ \/ /\ response.t = "str"
        /\ retval' = [kind |-> "answer", text |-> strip(response.s), sources |-> sources]
        /\ pc' = "returned"
        /\ UNCHANGED raised
     \/ /\ response.t # "str"
        /\ pc' = "raised"
        /\ raised' = "response"
        /\ UNCHANGED retval
  /\ UNCHANGED <<query, max_results, results, search_method_used, search_result,
                 context, sources, prompt, response, caught, calls, fallbacks>>

Next ==
  \/ \E q \in Queries, mr \in MaxResultsArgs : Invoke(q, mr)
  \/ ConstructOpenAI
  \/ Firecrawl
  \/ Tavily
  \/ ReturnDiagnostic
  \/ Format
  \/ Complete
  \/ Assemble

Spec == Init /\ [][Next]_vars

(***************************************************************************)
(* Vocabulary of the properties.                                           *)
(***************************************************************************)
CallsTo(ep) == {i \in DOMAIN calls : calls[i].ep = ep}

\* the primary adapter and the fallback decision are both behind
PastFallback == pc \in {"check", "completion", "assemble"} \/ (pc \in {"returned", "raised"} /\ raised # "openai_client")

\* the context and the citation block have been built
Formatted == context.label # ""

\* a field of a provider-A hit that carries information
Present(v, placeholder) == Truthy(v) /\ v # placeholder

\* the text of a provider-A hit: markdown, else content
HitText(hit) == IF Truthy(hit.markdown) THEN hit.markdown ELSE hit.content

\* a provider-A hit that qualifies
Qualifies(hit) ==
  \/ Present(hit.title, NoTitle)
  \/ Present(hit.url, NoURL)
  \/ (HitText(hit).t = "str" /\ Len(HitText(hit).s) > 10)

\* the order in which the endpoints may be called
Rank(ep) == CASE ep = "firecrawl" -> 1 [] ep = "tavily" -> 2 [] OTHER -> 3

(***************************************************************************)
(* C1.  As stated: when both adapters yield zero records the returned      *)
(* string is one fixed string, the same whatever the query, and the        *)
(* completion endpoint is not called.                                      *)
(***************************************************************************)
C1_FixedForEveryQuery ==
  (pc = "returned" /\ results = <<>>) =>
     /\ \A q \in Queries : retval.text = DiagnosticHead \o q \o DiagnosticTail
     /\ CallsTo("openai") = {}

(***************************************************************************)
(* C1, amended.  When both adapters yield zero records the returned string *)
(* is the fixed template with the invocation's own query between the       *)
(* quotes, nothing of max_results or of the providers' answers is in it,   *)
(* and the completion endpoint is not called.                              *)
(***************************************************************************)
C1_DiagnosticOfQuery ==
  (pc = "returned" /\ results = <<>>) =>
     /\ retval = [kind |-> "diagnostic",
                  text |-> DiagnosticHead \o query \o DiagnosticTail,
                  sources |-> NoBlock]
     /\ CallsTo("openai") = {}

C1_Witness ==
  /\ pc = "returned"
  /\ results = <<>>
  /\ CallsTo("firecrawl") # {}
  /\ CallsTo("tavily") # {}
  /\ caught = {}
  /\ retval.kind = "diagnostic"
  /\ query = "q"
  /\ max_results = MaxMaxResults

(***************************************************************************)
(* C2.  As stated: whenever provider A raised (anywhere in the primary     *)
(* adapter's work) or returned no qualifying hit, search_with_tavily is    *)
(* invoked exactly once, with the invocation's query and max_results.      *)
(***************************************************************************)
C2_FallbackInvokedOnce ==
  (/\ PastFallback
   /\ \/ "FireCrawl" \in caught
      \/ \A i \in DOMAIN search_result.data : ~Qualifies(search_result.data[i]))
  => fallbacks = <<[query |-> query, max_results |-> max_results]>>

(***************************************************************************)
(* C3.  Call discipline: each endpoint is called at most once; provider A  *)
(* before provider B before the completion endpoint; provider B only while *)
(* the record list is empty; the completion endpoint only once it is not.  *)
(***************************************************************************)
C3_CallDiscipline ==
  /\ \A i, j \in DOMAIN calls : i < j => Rank(calls[i].ep) < Rank(calls[j].ep)
  /\ \A i \in DOMAIN calls :
       /\ calls[i].ep = "firecrawl" => i = 1
       /\ calls[i].ep = "tavily" => calls[i].n = 0 /\ Len(fallbacks) = 1
       /\ calls[i].ep = "openai" => calls[i].n > 0 /\ Formatted
  /\ Len(fallbacks) <= 1
  /\ Len(calls) <= 3

C3_Witness ==
  /\ pc = "returned"
  /\ Len(calls) = 3
  /\ calls[1].ep = "firecrawl"
  /\ calls[2].ep = "tavily"
  /\ calls[3].ep = "openai"

(***************************************************************************)
(* C4.  As stated: an exception caught in an adapter leaves that adapter   *)
(* with zero records: after a fault in the primary adapter the record list *)
(* is empty when the fallback decision is taken, and after a fault in the  *)
(* fallback adapter it is empty when the emptiness check is taken.         *)
(***************************************************************************)
C4_FaultMeansZeroRecords ==
  /\ (pc = "tavily" /\ "FireCrawl" \in caught) => results = <<>>
  /\ (pc = "check" /\ "Tavily" \in caught) => results = <<>>
  /\ raised \notin {"FireCrawl", "Tavily"}

(***************************************************************************)
(* C5.  An exception of the completion side is never caught: it leaves     *)
(* search_web, nothing is returned in its place and the completion call is *)
(* not made again.  A finished invocation has returned the answer with its *)
(* citations, or returned the diagnostic message, or raised.               *)
(***************************************************************************)
C5_SynthesisFaultPropagates ==
  /\ caught \subseteq {"FireCrawl", "Tavily"}
  /\ Cardinality(CallsTo("openai")) <= 1
  /\ pc = "raised" =>
       /\ retval = NoReturn
       /\ raised \in {"openai_client", "completion", "response"}
       /\ raised = "completion" => calls[Len(calls)].ep = "openai"
  /\ pc = "returned" =>
       /\ raised = ""
       /\ retval.kind \in {"answer", "diagnostic"}
       /\ retval.kind = "diagnostic" => CallsTo("openai") = {} /\ retval.sources = NoBlock
       /\ retval.kind = "answer" =>
            /\ Cardinality(CallsTo("openai")) = 1
            /\ response.t = "str"
            /\ retval.sources = sources
            /\ sources.entries # <<>> \/ max_results < 1
  /\ pc \notin {"raised", "returned"} => retval = NoReturn /\ raised = ""

C5_Witness ==
  /\ pc = "raised"
  /\ raised = "completion"
  /\ Cardinality(CallsTo("openai")) = 1
  /\ results # <<>>
  /\ retval = NoReturn

(***************************************************************************)
(* C6.  For a non-empty record list of size M and max_results >= 1, the    *)
(* context and the citation block each hold min(M, max_results) entries:   *)
(* the first records in their order, numbered from 1 without gaps, entry i *)
(* of both blocks carrying the title and url of record i.                  *)
(***************************************************************************)
C6_FirstRecordsInOrder ==
  (Formatted /\ max_results >= 1) =>
     LET k == IF Len(results) < max_results THEN Len(results) ELSE max_results
     IN /\ Len(results) >= 1
        /\ Len(context.entries) = k
        /\ Len(sources.entries) = k
        /\ \A i \in 1..k :
             /\ context.entries[i].i = i
             /\ sources.entries[i].i = i
             /\ context.entries[i].title = str(results[i].title)
             /\ context.entries[i].url = str(results[i].url)
             /\ sources.entries[i].title = context.entries[i].title
             /\ sources.entries[i].url = context.entries[i].url

C6_Witness ==
  /\ Formatted
  /\ max_results = 1
  /\ Len(results) = 2
  /\ results[1] # results[2]
  /\ Len(context.entries) = 1
  /\ Len(sources.entries) = 1

(***************************************************************************)
(* C7.  A content of length L <= 1500 is in the context verbatim; a longer *)
(* one is its first 1500 characters followed by "...", 1503 characters.    *)
(***************************************************************************)
C7_Truncation ==
  Formatted =>
    \A i \in DOMAIN context.entries :
      LET c == str(results[i].content)
          out == context.entries[i].content
      IN /\ Len(c) <= 1500 => out = c
         /\ Len(c) > 1500 =>
              /\ SubSeq(out, 1, 1500) = SubSeq(c, 1, 1500)
              /\ SubSeq(out, 1501, Len(out)) = "..."
              /\ Len(out) = 1503

C7_Witness ==
  /\ Formatted
  /\ Len(context.entries) = 2
  /\ Len(str(results[1].content)) = 1501
  /\ Len(context.entries[1].content) = 1503
  /\ Len(str(results[2].content)) = 1500
  /\ context.entries[2].content = str(results[2].content)

(***************************************************************************)
(* C8.  When provider A's response is processed without exception, the     *)
(* record list after the primary adapter is the records of the qualifying  *)
(* hits, in provider order, and the label is "FireCrawl" when there is one.*)
(***************************************************************************)
C8_QualifyingHitsRetained ==
  (pc = "tavily" /\ search_result.kind # "unset" /\ "FireCrawl" \notin caught) =>
     LET kept == SelectSeq(search_result.data, Qualifies)
     IN /\ Len(results) = Len(kept)
        /\ \A i \in 1..Len(kept) :
             /\ results[i].title = (IF Truthy(kept[i].title) THEN kept[i].title ELSE PyStr("No title"))
             /\ results[i].url = (IF Truthy(kept[i].url) THEN kept[i].url ELSE PyStr("No URL"))
             /\ results[i].content = (IF Truthy(HitText(kept[i])) THEN HitText(kept[i]) ELSE PyStr("No content"))
        /\ kept # <<>> => search_method_used = "FireCrawl"

C8_Witness ==
  /\ pc = "tavily"
  /\ "FireCrawl" \notin caught
  /\ Len(search_result.data) = 2
  /\ ~Qualifies(search_result.data[1])
  /\ search_result.data[1].content = PyStr(Short10)
  /\ search_result.data[2].title = PyNone
  /\ search_result.data[2].url = PyNone
  /\ Len(results) = 1
  /\ search_method_used = "FireCrawl"

(***************************************************************************)
(* C9.  As stated: in a returned answer the label of the context header,   *)
(* of the prompt and of the citation header is the adapter whose records   *)
(* are cited: "Tavily" when the fallback produced them, "FireCrawl" when   *)
(* the primary adapter did; never "Unknown".                               *)
(***************************************************************************)
C9_LabelNamesAdapter ==
  (pc = "returned" /\ retval.kind = "answer") =>
     /\ context.label = retval.sources.label
     /\ prompt.label = retval.sources.label
     /\ retval.sources.label # "Unknown"
     /\ retval.sources.label = (IF fallbacks # <<>> THEN "Tavily" ELSE "FireCrawl")

(***************************************************************************)
(* C10.  As stated: a fault of the completion side ends an invocation only *)
(* after the searches have run and a non-empty record list exists; when    *)
(* both adapters yield nothing the diagnostic message is returned whatever *)
(* the state of the completion side.                                       *)
(***************************************************************************)
C10_CompletionFaultOnlyAfterRecords ==
  pc = "raised" => (results # <<>> /\ search_method_used # "")

====
